---------------------------- MODULE Spec2Model ----------------------------
(***************************************************************************)
(* AskMyDoc (src/main.py): the tiered recovery of the model's raw answer   *)
(* (validate_and_parse_json with clean_and_fix_json and                    *)
(* extract_json_manually), the model client ask_llama and the /ask handler *)
(* ask_document_question.                                                  *)
(*                                                                         *)
(* Text is a sequence of one-character strings.  The characters that occur *)
(* are letters, digits, quotes, braces, brackets, colon, comma, question   *)
(* mark, space and newline: no backslash, sign, dot or exponent, so string *)
(* escapes and non-integer numbers are outside the model.                  *)
(***************************************************************************)
EXTENDS Integers, Sequences, FiniteSets, TLC

(***************************************************************************)
(* Characters and words.                                                   *)
(***************************************************************************)
Q == "\""
NL == "\n"
SP == " "

Digits == {"0", "1", "2", "3", "4", "5", "6", "7", "8", "9"}

\* str.strip() / regex \s / JSON whitespace, restricted to the model's characters
IsSpace(c) == c \in {" ", "\n", "\t", "\r"}

W_perguntas == <<"p", "e", "r", "g", "u", "n", "t", "a", "s">>
W_pergunta_ == <<"p", "e", "r", "g", "u", "n", "t", "a", "_">>
W_true == <<"t", "r", "u", "e">>
W_false == <<"f", "a", "l", "s", "e">>
W_null == <<"n", "u", "l", "l">>

Min(S) == CHOOSE x \in S : \A y \in S : x <= y

\* s[i..] starts with the word w
StartsWithAt(s, i, w) ==
  /\ i >= 1
  /\ i + Len(w) - 1 <= Len(s)
  /\ \A j \in 1..Len(w) : s[i + j - 1] = w[j]

\* Python's `w in s` for two strings
IsSubstring(w, s) == \E i \in 1..(Len(s) + 1) : StartsWithAt(s, i, w)

(***************************************************************************)
(* JSON values as json.loads builds them.  t is the Python type; s is the  *)
(* text of a str or the digits of an int; items are the entries of a dict  *)
(* (unique keys, insertion order) or the elements of a list (k empty).     *)
(***************************************************************************)
JNull == [t |-> "null", s |-> <<>>, items |-> <<>>]
JBool(b) == [t |-> IF b THEN "true" ELSE "false", s |-> <<>>, items |-> <<>>]
JNum(ds) == [t |-> "num", s |-> ds, items |-> <<>>]
JStr(cs) == [t |-> "str", s |-> cs, items |-> <<>>]
JArr(es) == [t |-> "arr", s |-> <<>>, items |-> es]
JObj(es) == [t |-> "obj", s |-> <<>>, items |-> es]

Item(k, v) == [k |-> k, v |-> v]

\* dict[k] = v: a new key goes last, an existing key keeps its place
DictSet(items, k, v) ==
  IF \E i \in 1..Len(items) : items[i].k = k
  THEN [i \in 1..Len(items) |-> IF items[i].k = k THEN Item(k, v) ELSE items[i]]
  ELSE Append(items, Item(k, v))

HasKey(items, k) == \E i \in 1..Len(items) : items[i].k = k

DictGet(items, k) == items[CHOOSE i \in 1..Len(items) : items[i].k = k].v

\* bool(x) of a parsed value
Truthy(v) ==
  CASE v.t = "null" -> FALSE
    [] v.t = "false" -> FALSE
    [] v.t = "true" -> TRUE
    [] v.t = "num" -> v.s # <<"0">>
    [] v.t = "str" -> v.s # <<>>
    [] OTHER -> v.items # <<>>

\* whether the test (perguntas in x) raises TypeError: int, bool and None are not iterable
InRaises(v) == v.t \in {"num", "true", "false", "null"}

\* the test (perguntas in x) for a dict (key), a list (element) and a str (substring)
ContainsPerguntas(v) ==
  CASE v.t = "obj" -> HasKey(v.items, W_perguntas)
    [] v.t = "arr" -> \E i \in 1..Len(v.items) : v.items[i].v = JStr(W_perguntas)
    [] v.t = "str" -> IsSubstring(W_perguntas, v.s)
    [] OTHER -> FALSE

(***************************************************************************)
(* json.loads.  A parse step returns [ok, v, pos]: pos is the index of the *)
(* first character after the value.                                        *)
(***************************************************************************)
PFail == [ok |-> FALSE, v |-> JNull, pos |-> 0]
POk(v, pos) == [ok |-> TRUE, v |-> v, pos |-> pos]

RECURSIVE SkipWs(_, _)
SkipWs(s, i) == IF i <= Len(s) /\ IsSpace(s[i]) THEN SkipWs(s, i + 1) ELSE i

\* index of the first Q at or after i, 0 if a control character or the end comes first
RECURSIVE StringEnd(_, _)
StringEnd(s, i) ==
  IF i > Len(s) THEN 0
  ELSE IF s[i] = Q THEN i
  ELSE IF s[i] \in {"\n", "\t", "\r"} THEN 0
  ELSE StringEnd(s, i + 1)

\* s[i] = Q: the string literal starting at i
ParseString(s, i) ==
  LET e == StringEnd(s, i + 1)
  IN IF e = 0 THEN PFail ELSE POk(JStr(SubSeq(s, i + 1, e - 1)), e + 1)

RECURSIVE DigitsEnd(_, _)
DigitsEnd(s, i) == IF i <= Len(s) /\ s[i] \in Digits THEN DigitsEnd(s, i + 1) ELSE i

\* s[i] is a digit: (0|[1-9]\d*)
ParseNumber(s, i) ==
  LET e == IF s[i] = "0" THEN i + 1 ELSE DigitsEnd(s, i)
  IN POk(JNum(SubSeq(s, i, e - 1)), e)

RECURSIVE ParseValue(_, _)
RECURSIVE ParseMembers(_, _, _)
RECURSIVE ParseElements(_, _, _)

\* i is at the Q of the next key; acc are the entries so far
ParseMembers(s, i, acc) ==
  IF i > Len(s) \/ s[i] # Q THEN PFail
  ELSE LET key == ParseString(s, i) IN
    IF ~key.ok THEN PFail
    ELSE LET c == SkipWs(s, key.pos) IN
      IF c > Len(s) \/ s[c] # ":" THEN PFail
      ELSE LET val == ParseValue(s, SkipWs(s, c + 1)) IN
        IF ~val.ok THEN PFail
        ELSE LET acc2 == DictSet(acc, key.v.s, val.v)
                 d == SkipWs(s, val.pos)
             IN IF d > Len(s) THEN PFail
                ELSE IF s[d] = "}" THEN POk(JObj(acc2), d + 1)
                ELSE IF s[d] = "," THEN ParseMembers(s, SkipWs(s, d + 1), acc2)
                ELSE PFail

\* i is at the first character of the next element
ParseElements(s, i, acc) ==
  LET val == ParseValue(s, i) IN
    IF ~val.ok THEN PFail
    ELSE LET acc2 == Append(acc, Item(<<>>, val.v))
             d == SkipWs(s, val.pos)
         IN IF d > Len(s) THEN PFail
            ELSE IF s[d] = "]" THEN POk(JArr(acc2), d + 1)
            ELSE IF s[d] = "," THEN ParseElements(s, SkipWs(s, d + 1), acc2)
            ELSE PFail

ParseValue(s, i) ==
  IF i > Len(s) THEN PFail
  ELSE IF s[i] = Q THEN ParseString(s, i)
  ELSE IF s[i] = "{" THEN
    LET j == SkipWs(s, i + 1) IN
      IF j <= Len(s) /\ s[j] = "}" THEN POk(JObj(<<>>), j + 1)
      ELSE ParseMembers(s, j, <<>>)
  ELSE IF s[i] = "[" THEN
    LET j == SkipWs(s, i + 1) IN
      IF j <= Len(s) /\ s[j] = "]" THEN POk(JArr(<<>>), j + 1)
      ELSE ParseElements(s, j, <<>>)
  ELSE IF StartsWithAt(s, i, W_null) THEN POk(JNull, i + 4)
  ELSE IF StartsWithAt(s, i, W_true) THEN POk(JBool(TRUE), i + 4)
  ELSE IF StartsWithAt(s, i, W_false) THEN POk(JBool(FALSE), i + 5)
  ELSE IF s[i] \in Digits THEN ParseNumber(s, i)
  ELSE PFail

\* json.loads(s): [ok, v]; ok = FALSE is JSONDecodeError
json_loads(s) ==
  LET r == ParseValue(s, SkipWs(s, 1)) IN
    IF r.ok /\ SkipWs(s, r.pos) = Len(s) + 1
    THEN [ok |-> TRUE, v |-> r.v]
    ELSE [ok |-> FALSE, v |-> JNull]

(***************************************************************************)
(* str.strip, str.find, str.rfind and the three re.sub of                  *)
(* clean_and_fix_json, each scanned left to right as re does.              *)
(***************************************************************************)
RECURSIVE RStripEnd(_, _)
RStripEnd(s, j) == IF j >= 1 /\ IsSpace(s[j]) THEN RStripEnd(s, j - 1) ELSE j

\* cleaned = json_text.strip()
strip(s) == SubSeq(s, SkipWs(s, 1), RStripEnd(s, Len(s)))

\* s.find(c), 0 standing for Python's -1 (indices are 1-based here)
find(s, c) ==
  IF \E i \in 1..Len(s) : s[i] = c
  THEN CHOOSE i \in 1..Len(s) : s[i] = c /\ \A j \in 1..(i - 1) : s[j] # c
  ELSE 0

rfind(s, c) ==
  IF \E i \in 1..Len(s) : s[i] = c
  THEN CHOOSE i \in 1..Len(s) : s[i] = c /\ \A j \in (i + 1)..Len(s) : s[j] # c
  ELSE 0

\* if start != -1 and end != -1 and start < end: cleaned = cleaned[start:end+1]
slice_braces(s) ==
  LET start == find(s, "{")
      end == rfind(s, "}")
  IN IF start # 0 /\ end # 0 /\ start < end THEN SubSeq(s, start, end) ELSE s

\* [^Q]*?$ from i with re.MULTILINE (Q: the double quote): the index just after the match (the end of
\* the text, or a newline), 0 when a quote comes first
RECURSIVE LazyToLineEnd(_, _)
LazyToLineEnd(s, i) ==
  IF i > Len(s) THEN i
  ELSE IF s[i] = NL THEN i
  ELSE IF s[i] = Q THEN 0
  ELSE LazyToLineEnd(s, i + 1)

\* re.sub of Q, a lazy run of non-Q and $, by the same followed by Q (re.MULTILINE)
\* the text from i on is searched for the leftmost match; what precedes the
\* match is copied, the match is replaced and the search goes on after it
RECURSIVE SubCloseQuotes(_, _, _)
SubCloseQuotes(s, i, out) ==
  LET starts == {q \in i..Len(s) : s[q] = Q /\ LazyToLineEnd(s, q + 1) # 0} IN
    IF starts = {} THEN out \o SubSeq(s, i, Len(s))
    ELSE LET q == Min(starts)
             j == LazyToLineEnd(s, q + 1)
         IN SubCloseQuotes(s, j, out \o SubSeq(s, i, j - 1) \o <<Q>>)

close_quotes(s) == SubCloseQuotes(s, 1, <<>>)

\* Q\s*\n\s*Q at i (s[i] = Q): the index of the closing quote, 0 when no match
QuoteNewlineQuote(s, i) ==
  LET k == SkipWs(s, i + 1) IN
    IF k <= Len(s) /\ s[k] = Q /\ \E j \in (i + 1)..(k - 1) : s[j] = NL
    THEN k ELSE 0

\* re.sub of Q\s*\n\s*Q by Q,\n  Q
RECURSIVE SubInsertCommas(_, _, _)
SubInsertCommas(s, i, out) ==
  LET starts == {q \in i..Len(s) : s[q] = Q /\ QuoteNewlineQuote(s, q) # 0} IN
    IF starts = {} THEN out \o SubSeq(s, i, Len(s))
    ELSE LET q == Min(starts)
             k == QuoteNewlineQuote(s, q)
         IN SubInsertCommas(s, k + 1,
                            out \o SubSeq(s, i, q - 1) \o <<Q, ",", NL, SP, SP, Q>>)

insert_commas(s) == SubInsertCommas(s, 1, <<>>)

\* re.sub(r',(\s*})', r'\1', cleaned)
\* ,\s*} at i (s[i] is a comma): the index of the brace, 0 when no match
CommaBrace(s, i) ==
  LET k == SkipWs(s, i + 1) IN IF k <= Len(s) /\ s[k] = "}" THEN k ELSE 0

RECURSIVE SubTrailingCommas(_, _, _)
SubTrailingCommas(s, i, out) ==
  LET starts == {q \in i..Len(s) : s[q] = "," /\ CommaBrace(s, q) # 0} IN
    IF starts = {} THEN out \o SubSeq(s, i, Len(s))
    ELSE LET q == Min(starts)
             k == CommaBrace(s, q)
         IN SubTrailingCommas(s, k + 1, out \o SubSeq(s, i, q - 1) \o SubSeq(s, q + 1, k))

remove_trailing_commas(s) == SubTrailingCommas(s, 1, <<>>)

\* the text clean_and_fix_json hands to json.loads
cleaned_text(json_text) ==
  remove_trailing_commas(insert_commas(close_quotes(slice_braces(strip(json_text)))))

\* clean_and_fix_json: the parsed value, JNull for the None of the except branch
clean_and_fix_json(json_text) ==
  LET r == json_loads(cleaned_text(json_text))
  IN IF r.ok THEN r.v ELSE JNull

(***************************************************************************)
(* extract_json_manually: re.findall of a quoted key pergunta_<digits>,    *)
(* optional whitespace, a colon, optional whitespace and a quoted run of   *)
(* non-quote characters.                                                   *)
(***************************************************************************)
\* index of the first Q at or after i, 0 if none (the run of non-Q also crosses newlines)
RECURSIVE NextQuote(_, _)
NextQuote(s, i) ==
  IF i > Len(s) THEN 0 ELSE IF s[i] = Q THEN i ELSE NextQuote(s, i + 1)

\* the match starting at i, [ok, k, v, pos]: pos is the index after the match
MatchPairAt(s, i) ==
  LET none == [ok |-> FALSE, k |-> <<>>, v |-> <<>>, pos |-> 0]
      d == DigitsEnd(s, i + 10)
  IN IF ~(s[i] = Q /\ StartsWithAt(s, i + 1, W_pergunta_)) THEN none
     ELSE IF ~(d > i + 10 /\ d <= Len(s) /\ s[d] = Q) THEN none
     ELSE LET c == SkipWs(s, d + 1) IN
       IF ~(c <= Len(s) /\ s[c] = ":") THEN none
       ELSE LET o == SkipWs(s, c + 1) IN
         IF ~(o <= Len(s) /\ s[o] = Q) THEN none
         ELSE LET e == NextQuote(s, o + 1) IN
           IF e = 0 THEN none
           ELSE [ok |-> TRUE, k |-> SubSeq(s, i + 1, d - 1),
                 v |-> SubSeq(s, o + 1, e - 1), pos |-> e + 1]

\* matches = re.findall(pattern, text): the (key, value) pairs, in text order
RECURSIVE FindAllFrom(_, _, _)
FindAllFrom(s, i, acc) ==
  LET starts == {q \in i..Len(s) : MatchPairAt(s, q).ok} IN
    IF starts = {} THEN acc
    ELSE LET m == MatchPairAt(s, Min(starts))
         IN FindAllFrom(s, m.pos, Append(acc, [k |-> m.k, v |-> m.v]))

re_findall(text) == FindAllFrom(text, 1, <<>>)

\* for key, value in matches: questions[key] = value
RECURSIVE BuildQuestions(_, _)
BuildQuestions(matches, questions) ==
  IF matches = <<>> THEN questions
  ELSE BuildQuestions(Tail(matches),
                      DictSet(questions, Head(matches).k, JStr(Head(matches).v)))

\* extract_json_manually: {perguntas: questions}, JNull for None
extract_json_manually(text) ==
  LET questions == BuildQuestions(re_findall(text), <<>>)
  IN IF questions # <<>>
     THEN JObj(<<Item(W_perguntas, JObj(questions))>>)
     ELSE JNull

(***************************************************************************)
(* validate_and_parse_json.  The outcome is [kind, value, tier]: kind is   *)
(* return or raise (an exception leaves the function), tier the            *)
(* attempt that produced it (4: the final error object).                   *)
(***************************************************************************)
\* fixed message texts are held as one symbol each
K_erro == <<"e", "r", "r", "o">>
K_raw == <<"r", "a", "w">>
K_sugestao == <<"s", "u", "g", "e", "s", "t", "a", "o">>
M_parse == <<"Nao foi possivel fazer parse do JSON">>
M_sugestao == <<"O modelo pode estar retornando texto incompleto ou malformado">>

ErrorObject(response_text) ==
  JObj(<<Item(K_erro, JStr(M_parse)),
         Item(K_raw, JStr(response_text)),
         Item(K_sugestao, JStr(M_sugestao))>>)

Return(v, tier) == [kind |-> "return", value |-> v, tier |-> tier]
Raise(tier) == [kind |-> "raise", value |-> JNull, tier |-> tier]

\* Tentativa 1 looking for the key pergunta_ instead of perguntas
Tier1AcceptsWrongKey(response_text) ==
  LET r == json_loads(response_text)
  IN r.ok /\ r.v.t = "obj" /\ HasKey(r.v.items, W_pergunta_)

\* Tentativa 1: json.loads and the test (perguntas in result), inside try/except
Tier1Accepts(response_text) ==
  LET r == json_loads(response_text)
  IN r.ok /\ ~InRaises(r.v) /\ ContainsPerguntas(r.v)

\* Tentativa 3 scanning the text Tentativa 2 cleaned instead of the original
validate_scanning_cleaned(response_text) ==
  IF Tier1Accepts(response_text)
  THEN Return(json_loads(response_text).v, 1)
  ELSE LET cleaned_result == clean_and_fix_json(response_text) IN
    IF Truthy(cleaned_result) /\ InRaises(cleaned_result) THEN Raise(2)
    ELSE IF Truthy(cleaned_result) /\ ContainsPerguntas(cleaned_result)
    THEN Return(cleaned_result, 2)
    ELSE LET manual_result == extract_json_manually(cleaned_text(response_text)) IN
      IF Truthy(manual_result) THEN Return(manual_result, 3)
      ELSE Return(ErrorObject(response_text), 4)

validate_and_parse_json(response_text) ==
  IF Tier1Accepts(response_text)
  THEN Return(json_loads(response_text).v, 1)
  ELSE LET cleaned_result == clean_and_fix_json(response_text) IN
    IF Truthy(cleaned_result) /\ InRaises(cleaned_result) THEN Raise(2)
    ELSE IF Truthy(cleaned_result) /\ ContainsPerguntas(cleaned_result)
    THEN Return(cleaned_result, 2)
    ELSE LET manual_result == extract_json_manually(response_text) IN
      IF Truthy(manual_result) THEN Return(manual_result, 3)
      ELSE Return(ErrorObject(response_text), 4)

(***************************************************************************)
(* The raw completions the pipeline is applied to: every text of at most   *)
(* MaxShort characters over ShortAlphabet, and documents of the prompt's   *)
(* shape with at most MaxEntries fields, well formed or damaged the ways   *)
(* a generation is (prose around it, fields separated by a newline only, a *)
(* trailing comma, the text cut before the closing braces or inside the    *)
(* last value), plus a few fixed texts.                                    *)
(***************************************************************************)
MaxShort == 2
MaxEntries == 2

ShortAlphabet == {Q, "{", "}", "5", "0", SP, NL}

RECURSIVE TextsUpTo(_)
TextsUpTo(n) ==
  IF n = 0 THEN {<<>>}
  ELSE LET shorter == TextsUpTo(n - 1)
       IN shorter \cup {Append(t, c) : t \in shorter, c \in ShortAlphabet}

K_1 == W_pergunta_ \o <<"1">>
K_2 == W_pergunta_ \o <<"2">>

\* the text of a field value: two questions, an empty string and a number
FieldValues == {<<Q, "A", "?", Q>>, <<Q, Q>>, <<"7">>}

Fields == {<<Q>> \o k \o <<Q, ":", SP>> \o v : k \in {K_1, K_2}, v \in FieldValues}

RECURSIVE FieldSeqs(_)
FieldSeqs(n) ==
  IF n = 0 THEN {<<>>}
  ELSE LET shorter == FieldSeqs(n - 1)
       IN shorter \cup {Append(fs, f) : fs \in shorter, f \in Fields}

RECURSIVE Join(_, _)
Join(fs, sep) ==
  IF fs = <<>> THEN <<>>
  ELSE IF Len(fs) = 1 THEN fs[1]
  ELSE fs[1] \o sep \o Join(Tail(fs), sep)

Opening == <<"{", Q>> \o W_perguntas \o <<Q, ":", SP, "{">>

Separators == {<<",">>, <<",", NL>>, <<NL>>}

\* what follows the last field: the closing braces, a trailing comma before
\* them, a line break before them, or nothing (the text was cut)
Endings == {<<"}", "}">>, <<",", "}", "}">>, <<NL, "}", "}">>, <<>>}

\* what is cut from the end of the last field: nothing, or its last character
Cuts == {0, 1}

Prefixes == {<<>>, <<"x", SP>>}

Documents ==
  {pre \o Opening \o SubSeq(Join(fs, sep), 1, Len(Join(fs, sep)) - cut) \o ending :
     pre \in Prefixes, fs \in FieldSeqs(MaxEntries), sep \in Separators,
     cut \in Cuts, ending \in Endings}

\* {"perguntas": {"pergunta_1": "A?", "pergunta_2": "B?"}}
StrictExample ==
  Opening \o <<Q>> \o K_1 \o <<Q, ":", SP, Q, "A", "?", Q, ",", SP>>
          \o <<Q>> \o K_2 \o <<Q, ":", SP, Q, "B", "?", Q, "}", "}">>

\* {"perguntas": {"pergunta_1": "What is the scope
PartialExample ==
  <<"W", "h", "a", "t", SP, "i", "s", SP, "t", "h", "e", SP, "s", "c", "o", "p", "e">>

TruncatedExample == Opening \o <<Q>> \o K_1 \o <<Q, ":", SP, Q>> \o PartialExample

\* perguntas holding something other than a mapping of questions
Wrapped(v) == <<"{", Q>> \o W_perguntas \o <<Q, ":", SP>> \o v \o <<"}">>

FixedTexts ==
  { Wrapped(<<"5">>), Wrapped(<<"0">>), Wrapped(W_null), Wrapped(W_true),
    Wrapped(<<"[", "]">>), Wrapped(<<Q, "A", "?", Q>>), Wrapped(<<"{", "}">>),
    <<Q>> \o W_perguntas \o <<Q>>,
    <<Q, "x", SP>> \o W_perguntas \o <<Q>>,
    <<"[", Q>> \o W_perguntas \o <<Q, "]">>,
    <<"[", "5", "]">>,
    W_true, W_false, W_null, <<"1", "2">>, <<"0", "1">>,
    <<"x", SP, Q>> \o K_1 \o <<Q, ":", SP, Q, "W", "?", Q, SP, "x">>,
    <<Q>> \o K_1 \o <<Q, ":", SP, Q, "A", "?", Q, SP, "{", "}">>,
    <<Q>> \o K_1 \o <<Q, NL, ":", NL, Q, "A", NL, "?", Q>>,
    <<"{", Q>> \o K_1 \o <<Q, ":", SP, Q, "A", "?", Q, "}">>,
    <<"x", SP, "y">>,
    StrictExample, TruncatedExample }

RawInputs == TextsUpTo(MaxShort) \cup Documents \cup FixedTexts

(***************************************************************************)
(* ask_llama and the /ask handler.                                         *)
(***************************************************************************)
MaxRequests == 2

\* the extension of the uploaded file's name; the empty text is no file name
Filenames == {"", ".pdf", ".docx", ".doc", ".md", ".txt"}

Supported == {".pdf", ".docx", ".doc", ".md"}

\* how requests.post ends: a status code, or an exception
Statuses == {"200", "500", "timeout", "unreachable"}

\* the response field of a 200 answer
Completions ==
  TextsUpTo(1) \cup {StrictExample, TruncatedExample, Wrapped(<<"5">>),
                     <<SP, "5", NL>>, <<"x", SP, "y">>}

K_detalhes == <<"d", "e", "t", "a", "l", "h", "e", "s">>

ErroAnswer(msg) == JObj(<<Item(K_erro, JStr(<<msg>>))>>)

\* the else branch and the except branches of ask_llama
ErrorFor(st) ==
  CASE st = "timeout" -> ErroAnswer("Timeout na requisicao ao Ollama")
    [] st = "unreachable" -> ErroAnswer("Erro na requisicao")
    [] OTHER -> JObj(<<Item(K_erro, JStr(<<"Ollama retornou status", st>>)),
                       Item(K_detalhes, JStr(<<"response.text">>))>>)

Unexpected == ErroAnswer("Erro inesperado")

\* ask_llama parsing the body whatever the status
after_post_parse_always(st) == "ask_parse"

\* where ask_llama goes once requests.post has ended with st
after_post(st) == IF st = "200" THEN "ask_parse" ELSE "ask_error"

(***************************************************************************)
(* State.  raw and outcome: the argument and the result of the last call   *)
(* of validate_and_parse_json.  pc: the position of the handler.  served:  *)
(* requests answered.  ext: the extension of the upload's name.  tmp_path: *)
(* the handler's variable, 0 for None.  created: the temporary file this   *)
(* request created, 0 for none.  files: the temporary files on disk.       *)
(* posts: requests.post calls of the current ask_llama call.  status: how  *)
(* the last one ended.  validated: validate_and_parse_json was called by   *)
(* the current ask_llama call.  answer: what ask_llama returned.           *)
(* response: the handler's HTTP response.                                  *)
(***************************************************************************)
VARIABLES raw, outcome, pc, served, ext, tmp_path, created, files, posts,
          status, validated, answer, response

vars == <<raw, outcome, pc, served, ext, tmp_path, created, files, posts,
          status, validated, answer, response>>

service_vars == <<served, ext, tmp_path, created, files, posts, status,
                  validated, answer, response>>

NoOutcome == [kind |-> "none", value |-> JNull, tier |-> 0]

ServiceIdle ==
  /\ served = 0
  /\ ext = ""
  /\ tmp_path = 0
  /\ created = 0
  /\ files = {}
  /\ posts = 0
  /\ status = "none"
  /\ validated = FALSE
  /\ answer = JNull
  /\ response = "none"

Init ==
  /\ raw = <<>>
  /\ outcome = NoOutcome
  /\ pc = "idle"
  /\ ServiceIdle

\* leave the try block with a response: the finally clause runs next
Leave(r) == response' = r /\ pc' = "finally"

\* a request arrives: tmp_path = None and the file name check
Receive(name) ==
  /\ pc \in {"idle", "responded"}
  /\ served < MaxRequests
  /\ ext' = name
  /\ tmp_path' = 0
  /\ created' = 0
  /\ posts' = 0
  /\ status' = "none"
  /\ validated' = FALSE
  /\ answer' = JNull
  /\ raw' = <<>>
  /\ outcome' = NoOutcome
  /\ IF name = "" THEN Leave("400 name") ELSE response' = "none" /\ pc' = "open"
  /\ UNCHANGED <<served, files>>

\* tempfile.NamedTemporaryFile(delete=False, ...) creates the file, or raises
OpenTmp ==
  /\ pc = "open"
  /\ \/ /\ created' = served + 1
        /\ files' = files \cup {served + 1}
        /\ pc' = "read"
        /\ UNCHANGED response
     \/ /\ Leave("500")
        /\ UNCHANGED <<created, files>>
  /\ UNCHANGED <<raw, outcome, served, ext, tmp_path, posts, status, validated, answer>>

\* content = await file.read(); tmp.write(content); tmp_path = tmp.name
ReadUpload ==
  /\ pc = "read"
  /\ \/ /\ tmp_path' = created
        /\ pc' = "extract"
        /\ UNCHANGED response
     \/ /\ Leave("500")
        /\ UNCHANGED tmp_path
  /\ UNCHANGED <<raw, outcome, served, ext, created, files, posts, status, validated, answer>>

\* the extension dispatch, the extraction and the check of the text
Extract ==
  /\ pc = "extract"
  /\ IF ext \notin Supported THEN Leave("400 format")
     ELSE \/ Leave("500")
          \/ Leave("400 empty")
          \/ pc' = "ask_post" /\ UNCHANGED response
  /\ UNCHANGED <<raw, outcome, served, ext, tmp_path, created, files, posts, status,
                 validated, answer>>

\* ask_llama: requests.post(...) ends with a status or an exception
AskPost ==
  /\ pc = "ask_post"
  /\ posts' = posts + 1
  /\ \E st \in Statuses : status' = st /\ pc' = after_post(st)
  /\ UNCHANGED <<raw, outcome, served, ext, tmp_path, created, files, validated, answer,
                 response>>

\* status 200: response.json().get("response", "").strip(), then the pipeline;
\* whatever raises ends in the last except branch
AskParse ==
  /\ pc = "ask_parse"
  /\ \/ /\ answer' = Unexpected
        /\ UNCHANGED <<raw, outcome, validated>>
     \/ \E body \in Completions :
          /\ raw' = strip(body)
          /\ validated' = TRUE
          /\ outcome' = validate_and_parse_json(strip(body))
          /\ answer' = IF outcome'.kind = "return" THEN outcome'.value ELSE Unexpected
  /\ pc' = "asked"
  /\ UNCHANGED <<served, ext, tmp_path, created, files, posts, status, response>>

\* any other status, a timeout or a failed request: an error object
AskError ==
  /\ pc = "ask_error"
  /\ answer' = ErrorFor(status)
  /\ pc' = "asked"
  /\ UNCHANGED <<raw, outcome, served, ext, tmp_path, created, files, posts, status,
                 validated, response>>

\* return {"answer": answer}
Respond ==
  /\ pc = "asked"
  /\ Leave("200")
  /\ UNCHANGED <<raw, outcome, served, ext, tmp_path, created, files, posts, status,
                 validated, answer>>

\* finally: if tmp_path and os.path.exists(tmp_path): os.remove, errors ignored
Finally ==
  /\ pc = "finally"
  /\ IF tmp_path # 0 /\ tmp_path \in files
     THEN \/ files' = files \ {tmp_path}
          \/ UNCHANGED files
     ELSE UNCHANGED files
  /\ pc' = "responded"
  /\ served' = served + 1
  /\ UNCHANGED <<raw, outcome, ext, tmp_path, created, posts, status, validated, answer,
                 response>>

Next ==
  \/ \E name \in Filenames : Receive(name)
  \/ OpenTmp
  \/ ReadUpload
  \/ Extract
  \/ AskPost
  \/ AskParse
  \/ AskError
  \/ Respond
  \/ Finally

Spec == Init /\ [][Next]_vars

(***************************************************************************)
(* The pipeline as a pure function: any raw completion, one call.          *)
(***************************************************************************)
RecoverInit ==
  /\ raw \in RawInputs
  /\ outcome = NoOutcome
  /\ pc = "call"
  /\ ServiceIdle

Recover ==
  /\ pc = "call"
  /\ outcome' = validate_and_parse_json(raw)
  /\ pc' = "returned"
  /\ UNCHANGED <<raw, service_vars>>

RecoverNext == Recover

RecoverSpec == RecoverInit /\ [][RecoverNext]_vars

(***************************************************************************)
(* Properties of the pipeline, checked under RecoverSpec.                  *)
(***************************************************************************)
Returned == pc = "returned"

\* the value of the field perguntas of an object that has it
Perguntas(v) == DictGet(v.items, W_perguntas)

HasPerguntasMapping(v) ==
  /\ v.t = "obj"
  /\ HasKey(v.items, W_perguntas)
  /\ Perguntas(v).t = "obj"

AllStrings(items) == \A i \in 1..Len(items) : items[i].v.t = "str"

AllNonEmptyStrings(items) ==
  \A i \in 1..Len(items) : items[i].v.t = "str" /\ items[i].v.s # <<>>

\* C1: validate_and_parse_json returns for every raw text; no exception leaves it.
C1_NeverRaises == Returned => outcome.kind = "return"

\* C2: whatever is returned is an object whose field perguntas is a mapping with
\* at least one entry that is a non-empty string, also when every tier found
\* nothing.
C2_AlwaysQuestionSet ==
  (Returned /\ outcome.kind = "return") =>
    /\ HasPerguntasMapping(outcome.value)
    /\ \E i \in 1..Len(Perguntas(outcome.value).items) :
         /\ Perguntas(outcome.value).items[i].v.t = "str"
         /\ Perguntas(outcome.value).items[i].v.s # <<>>

\* raw parses directly as an object whose perguntas is a non-empty mapping of
\* non-empty strings
StrictQuestionSet(text) ==
  LET r == json_loads(text) IN
    /\ r.ok
    /\ HasPerguntasMapping(r.v)
    /\ Perguntas(r.v).items # <<>>
    /\ AllNonEmptyStrings(Perguntas(r.v).items)

StrictExampleResult ==
  JObj(<<Item(W_perguntas,
              JObj(<<Item(K_1, JStr(<<"A", "?">>)), Item(K_2, JStr(<<"B", "?">>))>>))>>)

\* C3: a raw text that parses directly as an object whose perguntas is a non-empty
\* mapping of non-empty strings is answered by Tier 1 alone, with exactly the
\* parsed entries in their order; the example of the specification comes back
\* with its two entries.
C3_StrictPathFidelity ==
  /\ (Returned /\ StrictQuestionSet(raw)) =>
       /\ outcome.kind = "return"
       /\ outcome.tier = 1
       /\ HasPerguntasMapping(outcome.value)
       /\ Perguntas(outcome.value) = Perguntas(json_loads(raw).v)
  /\ (Returned /\ raw = StrictExample) => outcome = Return(StrictExampleResult, 1)

C3_Witness ==
  /\ Returned
  /\ StrictQuestionSet(raw)
  /\ outcome.tier = 1
  /\ Len(Perguntas(outcome.value).items) = 2

\* C4: what Tier 1 or Tier 2 returns is an object with a field perguntas that is
\* itself a mapping.
C4_AcceptsOnlyMapping ==
  (Returned /\ outcome.kind = "return" /\ outcome.tier \in {1, 2}) =>
    HasPerguntasMapping(outcome.value)

\* C5: a perguntas mapping with no entry, or with a value that is not a string, is
\* never what Tier 1 or Tier 2 returns.
C5_ValidatesEntries ==
  (/\ Returned
   /\ outcome.kind = "return"
   /\ outcome.tier \in {1, 2}
   /\ HasPerguntasMapping(outcome.value)) =>
    /\ Perguntas(outcome.value).items # <<>>
    /\ AllStrings(Perguntas(outcome.value).items)

\* the text after the opening of the first value of pergunta_1
TruncatedHead == Opening \o <<Q>> \o K_1 \o <<Q, ":", SP, Q>>

\* a perguntas object cut inside the value of pergunta_1: no closing quote, no
\* closing brace
TruncatedShape(text) ==
  /\ StartsWithAt(text, 1, TruncatedHead)
  /\ Len(text) > Len(TruncatedHead)
  /\ \A i \in (Len(TruncatedHead) + 1)..Len(text) : text[i] \notin {Q, "{", "}", NL}

PartialText(text) == SubSeq(text, Len(TruncatedHead) + 1, Len(text))

\* C6: for a text cut inside the value of pergunta_1, Tier 2 closes the quote and
\* the result has pergunta_1 equal to the partial text.
C6_TruncatedQuoteRepair ==
  (Returned /\ TruncatedShape(raw)) =>
    /\ outcome.kind = "return"
    /\ outcome.tier = 2
    /\ HasPerguntasMapping(outcome.value)
    /\ HasKey(Perguntas(outcome.value).items, K_1)
    /\ DictGet(Perguntas(outcome.value).items, K_1) = JStr(PartialText(raw))

QuotedField(k) == <<Q>> \o k \o <<Q, ":", SP, Q, "A", "?", Q>>

\* a perguntas object whose two fields are separated by a newline and no comma
MissingCommaText ==
  Opening \o QuotedField(K_1) \o <<NL>> \o QuotedField(K_2) \o <<"}", "}">>

\* C7: for two closed fields separated by a newline only, the steps before the
\* comma insertion leave the text as it is, Tier 2 inserts the comma, its parse
\* succeeds and both fields are entries of the result.
C7_MissingCommaRepair ==
  (Returned /\ raw = MissingCommaText) =>
    /\ close_quotes(slice_braces(strip(raw))) = raw
    /\ outcome.kind = "return"
    /\ outcome.tier = 2
    /\ HasPerguntasMapping(outcome.value)
    /\ HasKey(Perguntas(outcome.value).items, K_1)
    /\ HasKey(Perguntas(outcome.value).items, K_2)

\* Tier 1 and Tier 2 did not produce the result
Tiers12Failed == ~(outcome.kind = "return" /\ outcome.tier \in {1, 2})

FirstMatch(m, k) == CHOOSE j \in 1..Len(m) : m[j].k = k /\ \A h \in 1..(j - 1) : m[h].k # k

LastMatch(m, k) == CHOOSE j \in 1..Len(m) : m[j].k = k /\ \A h \in (j + 1)..Len(m) : m[h].k # k

\* C8 as stated: when Tiers 1 and 2 fail and the raw text has a match, the result
\* is {perguntas: Q} with one entry per match of the raw text, key and value as
\* matched, in the order of the matches.
C8_OneEntryPerMatch ==
  (Returned /\ Tiers12Failed /\ re_findall(raw) # <<>>) =>
    LET m == re_findall(raw) IN
      /\ outcome.kind = "return"
      /\ outcome.tier = 3
      /\ outcome.value.t = "obj"
      /\ Len(outcome.value.items) = 1
      /\ HasPerguntasMapping(outcome.value)
      /\ LET q == Perguntas(outcome.value).items IN
           /\ Len(q) = Len(m)
           /\ \A i \in 1..Len(q) : q[i] = Item(m[i].k, JStr(m[i].v))

\* C8 amended: when Tiers 1 and 2 fail and the raw text has a match, the result
\* is {perguntas: Q} with one entry per distinct matched key of the raw text,
\* keys verbatim in the order of their first match, each with the value of its
\* last match.
C8_OneEntryPerKey ==
  (Returned /\ Tiers12Failed /\ re_findall(raw) # <<>>) =>
    LET m == re_findall(raw) IN
      /\ outcome.kind = "return"
      /\ outcome.tier = 3
      /\ outcome.value.t = "obj"
      /\ Len(outcome.value.items) = 1
      /\ HasPerguntasMapping(outcome.value)
      /\ LET q == Perguntas(outcome.value).items IN
           /\ \A j \in 1..Len(m) : HasKey(q, m[j].k)
           /\ \A i \in 1..Len(q) : \E j \in 1..Len(m) : m[j].k = q[i].k
           /\ \A i, h \in 1..Len(q) : q[i].k = q[h].k => i = h
           /\ \A i, h \in 1..Len(q) :
                i < h => FirstMatch(m, q[i].k) < FirstMatch(m, q[h].k)
           /\ \A i \in 1..Len(q) : q[i].v = JStr(m[LastMatch(m, q[i].k)].v)

C8_Witness ==
  /\ Returned
  /\ outcome.kind = "return"
  /\ outcome.tier = 3
  /\ LET m == re_findall(raw) IN
       /\ Len(m) = 2
       /\ m[1].k = m[2].k
       /\ m[1].v # m[2].v

(***************************************************************************)
(* Properties of the handler and of ask_llama, checked under Spec.         *)
(***************************************************************************)
\* C9: when the handler has returned, the temporary file the request created is
\* no longer on disk, whichever way the handler ended; and the file is on disk
\* from before the extraction until after it.
C9_TmpFileRemoved ==
  /\ pc = "responded" => (created = 0 \/ created \notin files)
  /\ pc = "extract" => (created # 0 /\ created \in files)

IsErroAnswer(v) == v.t = "obj" /\ HasKey(v.items, K_erro) /\ ~HasKey(v.items, W_perguntas)

\* C10: one ask_llama call posts at most once, exactly once by the time it
\* returns; validate_and_parse_json is called only after a post that ended with
\* status 200; after a timeout, a failed connection or another status the
\* pipeline was not called and the answer is an error object.
C10_OnePostNoPipelineOnFailure ==
  /\ posts <= 1
  /\ pc = "asked" => posts = 1
  /\ validated => (status = "200" /\ posts = 1)
  /\ (pc = "asked" /\ status # "200") => (~validated /\ IsErroAnswer(answer))

C10_Witness ==
  /\ pc = "asked"
  /\ status = "timeout"
  /\ posts = 1
  /\ served = 1
=============================================================================
